---- MODULE Spec2Model ----
(***************************************************************************)
(* Annotation parsing and date-restriction resolution of the ferry         *)
(* schedule scraper (scraper/src/annotations.rs).                          *)
(*                                                                         *)
(* Three specifications share this module:                                 *)
(*   Spec       Annotations::parse / parse_single on annotation strings    *)
(*   SpecDates  the AnnotationDates set algebra and its resolution         *)
(*   SpecNotes  the AnnotationNotes registry and the weekday resolver      *)
(***************************************************************************)
EXTENDS Integers, Sequences, FiniteSets, TLC

VARIABLES
    pc,       \* Annotations::parse: "idle" (never called) | "loop" | "returned"
    texts,    \* annotation_texts of the current (outermost) parse call
    idx,      \* how many of `texts` its loop has taken
    queue,    \* strings the loops of nested parse calls still have to take
    ann,      \* the Annotations aggregate (self)
    ann0,     \* the Annotations as it was when the current parse call began
    result,   \* Result<()> of the last returned parse call
    single,   \* the last parse_single call: its text, self before, its result
    taken,    \* number of strings handed to parse so far, over all calls
    dates,    \* SpecDates: an AnnotationDates under accumulation
    dres,     \* SpecDates: record of the last resolution of `dates`
    notes,    \* SpecNotes: an AnnotationNotes registry (note text -> AnnotationDates)
    nres,     \* SpecNotes: record of the last operation on `notes`
    clock,             \* SpecForm: the Pacific date today_pacific() returns now
    props_date,        \* SpecForm: SailingsProps.date, the 'date' of the current history query
    schedules_state,   \* SpecForm: the SchedulesState context
    date_input_state,  \* SpecForm: the DateInputState kept by use_state
    form,              \* SpecForm: the FormModel of the last render (what its callbacks captured)
    last               \* SpecForm: the last callback that ran: what it set and pushed

vars ==
    <<pc, texts, idx, queue, ann, ann0, result, single, taken, dates, dres, notes, nres,
      clock, props_date, schedules_state, date_input_state, form, last>>
parseVars == <<pc, texts, idx, queue, ann, ann0, result, single, taken>>
datesVars == <<dates, dres>>
notesVars == <<notes, nres>>
formVars == <<clock, props_date, schedules_state, date_input_state, form, last>>

(***************************************************************************)
(* Bounds.                                                                 *)
(***************************************************************************)
\* The schedule's DateRange covers July 1 .. July MaxDay of one year.
MaxDay == 8
\* Largest number of annotation strings handed to Annotations::parse in one
\* behaviour, over all its calls.
MaxTexts == 2
\* Largest number of dates held by the AnnotationDates of SpecDates.
MaxDates == 3
\* Largest number of dates held by the whole registry of SpecNotes.
MaxNoteDates == 1
\* The Pacific date runs from day 1 to day MaxToday while the form is open.
MaxToday == 3
\* The dates of queries, typed inputs and schedules are the days 0..MaxFormDate.
MaxFormDate == 3

(***************************************************************************)
(* Dates and weekdays.  A Date is the day number within July; the year of  *)
(* the schedule is one in which July 1 is a Monday.                        *)
(***************************************************************************)
Days == 1..MaxDay

Weekdays == <<"Monday", "Tuesday", "Wednesday", "Thursday", "Friday", "Saturday", "Sunday">>

WeekdaySet == {Weekdays[i] : i \in 1..7}

\* Date::weekday
WeekdayOf(date) == Weekdays[((date - 1) % 7) + 1]

(***************************************************************************)
(* DateRestriction: All | Only(set) | Except(set).                         *)
(***************************************************************************)
All == [kind |-> "All", dates |-> {}]

Only(set) == [kind |-> "Only", dates |-> set]

Except(set) == [kind |-> "Except", dates |-> set]

\* DateRestriction::is_never: the restriction admits no date at all.
IsNever(dr) == dr.kind = "Only" /\ dr.dates = {}

\* DateRestriction::includes_date
IncludesDate(dr, date) ==
    CASE dr.kind = "All" -> TRUE
      [] dr.kind = "Only" -> date \in dr.dates
      [] dr.kind = "Except" -> date \notin dr.dates

(***************************************************************************)
(* AnnotationDates.                                                        *)
(***************************************************************************)
AnnotationDatesNew == [only |-> {}, except |-> {}]

IsAlways(self) == self.only = {} /\ self.except = {}

AnnotationDatesExtend(self, other) ==
    [only |-> self.only \cup other.only, except |-> self.except \cup other.except]

\* CancelCommon with the common dates removed from the except set alone.
CancelCommonExceptAlone(self) ==
    [only |-> self.only, except |-> self.except \ self.only]

\* The loop of into_date_restriction: self after every common date was
\* removed from both sets.
CancelCommon(self) ==
    LET common_dates == self.except \cap self.only
    IN  [only |-> self.only \ common_dates, except |-> self.except \ common_dates]

\* IntoDateRestriction testing the except set before the only set.
IntoDateRestrictionExceptFirst(self) ==
    LET s == CancelCommon(self)
    IN  IF s.except # {} THEN Except(s.except)
        ELSE IF s.only # {} THEN Only(s.only)
        ELSE All

\* IntoDateRestriction testing the sets as they were before the loop.
IntoDateRestrictionTestsBefore(self) ==
    IF self.only # {} THEN Only(CancelCommon(self).only)
    ELSE IF self.except # {} THEN Except(CancelCommon(self).except)
    ELSE All

IntoDateRestriction(self) ==
    LET s == CancelCommon(self)
    IN  IF s.only # {} THEN Only(s.only)
        ELSE IF s.except # {} THEN Except(s.except)
        ELSE All

\* HashSet::retain on both sets (the first two statements of
\* into_date_restriction_by); the closure is a function from Date to bool.
RetainBoth(self, predicate) ==
    [only |-> {d \in self.only : predicate[d]},
     except |-> {d \in self.except : predicate[d]}]

IntoDateRestrictionBy(self, predicate) ==
    IntoDateRestriction(RetainBoth(self, predicate))

WeekdayPredicate(date, weekday) == WeekdayOf(date) = weekday

IntoDateRestrictionByWeekday(self, weekday) ==
    IntoDateRestrictionBy(self, [date \in Days |-> WeekdayPredicate(date, weekday)])

\* WeekdayAndDateRestrictionPredicate without the test against the base.
WeekdayAndDateRestrictionPredicateWeekdayAlone(date, weekday, date_restriction) ==
    WeekdayOf(date) = weekday

WeekdayAndDateRestrictionPredicate(date, weekday, date_restriction) ==
    WeekdayOf(date) = weekday /\ IncludesDate(date_restriction, date)

IntoDateRestrictionByWeekdayAndDateRestriction(self, weekday, date_restriction) ==
    IntoDateRestrictionBy(self,
        [date \in Days |-> WeekdayAndDateRestrictionPredicate(date, weekday, date_restriction)])

\* filter_map + collect over (key, AnnotationDates) pairs; `map` is a function
\* from keys to AnnotationDates.
MapToDateRestrictionsByWeekday(map, weekday, date_restriction) ==
    LET dr(k) == IntoDateRestrictionByWeekdayAndDateRestriction(map[k], weekday, date_restriction)
        kept == {k \in DOMAIN map : ~IsNever(dr(k))}
    IN  [k \in kept |-> dr(k)]

AnnotationNotesDateRestictions(row_notes, weekday, date_restriction) ==
    MapToDateRestrictionsByWeekday(row_notes, weekday, date_restriction)

(***************************************************************************)
(* AnnotationNotes: a map from note text to AnnotationDates, modelled as a *)
(* function whose DOMAIN is the set of keys present.                       *)
(***************************************************************************)
AnnotationNotesNew == [k \in {} |-> AnnotationDatesNew]

\* text_date_restriction: entry(text).or_insert_with(AnnotationDates::new);
\* the registry after the call.
TextDateRestriction(map, text) ==
    IF text \in DOMAIN map THEN map
    ELSE [k \in DOMAIN map \cup {text} |-> IF k = text THEN AnnotationDatesNew ELSE map[k]]

\* AnnotationNotes::extend: HashMap::extend inserts every (key, value) pair of
\* `other`, replacing the value of a key already present.
AnnotationNotesExtend(map, other) ==
    [k \in DOMAIN map \cup DOMAIN other |-> IF k \in DOMAIN other THEN other[k] ELSE map[k]]

(***************************************************************************)
(* Text.  A string is a sequence of lexemes: a maximal run of letters, a   *)
(* maximal run of digits, or one punctuation or space character.  The      *)
(* regular expressions of the source are matched on this sequence; the     *)
(* character classes they use are sets of lexemes.                         *)
(***************************************************************************)
Punctuation == {" ", ":", ",", ".", "!", "*", "&", "#", "-"}

\* Runs of one or two digits (\d{1,2}), and of four (\d{4}).
ShortDigits == {"1", "2", "8", "9", "00", "11", "13", "15", "32"}

YearDigits == {"2024"}

DigitLexemes == ShortDigits \cup YearDigits

\* The words of exactly three letters ([a-z]{3} under (?i)).
ThreeLetters == {"Jul", "Sep", "Apr", "Not", "not", "and", "new", "the", "for", "are"}

IsDigits(x) == x \in DigitLexemes

IsLetters(x) == x \notin DigitLexemes /\ x \notin Punctuation /\ x # ""

\* \w: a lexeme of word characters
IsWord(x) == IsDigits(x) \/ IsLetters(x)

\* Case folding under (?i): the lower-case form of the words of the corpus
\* that hold an upper-case letter.
Lower(x) ==
    CASE x = "Except" -> "except"
      [] x = "Not" -> "not"
      [] x = "Available" -> "available"
      [] x = "Only" -> "only"
      [] x = "DG" -> "dg"
      [] x = "Sailing" -> "sailing"
      [] x = "April" -> "april"
      [] x = "PM" -> "pm"
      [] x = "AM" -> "am"
      [] x = "No" -> "no"
      [] x = "Note" -> "note"
      [] x = "This" -> "this"
      [] x = "Some" -> "some"
      [] x = "Foot" -> "foot"
      [] x = "Dangerous" -> "dangerous"
      [] x = "Saturna" -> "saturna"
      [] x = "Jul" -> "jul"
      [] x = "Sep" -> "sep"
      [] x = "Apr" -> "apr"
      [] OTHER -> x

At(t, i) == IF i \in 1..Len(t) THEN t[i] ELSE ""

(***************************************************************************)
(* Regular expressions over lexemes, matched leftmost-first with           *)
(* backtracking as the regex crate reports its captures.                   *)
(***************************************************************************)
\* one lexeme out of `set`
Lex(set) == [op |-> "lex", set |-> set, ci |-> FALSE]

\* one lexeme out of `set` (given in lower case) under (?i)
LexI(set) == [op |-> "lex", set |-> set, ci |-> TRUE]

Cat(rs) == [op |-> "seq", of |-> rs]

Alt(rs) == [op |-> "alt", of |-> rs]

Opt(r) == [op |-> "opt", r |-> r]

Star(r) == [op |-> "star", r |-> r]

Group(n, r) == [op |-> "group", n |-> n, r |-> r]

\* .*
DotStar == [op |-> "dotstar"]

\* [a-z]* under (?i) where a space must follow: no letters, or one whole word
Letters == [op |-> "letters"]

\* ^ and $
Bos == [op |-> "bos"]

Eos == [op |-> "eos"]

\* \b
Wb == [op |-> "wb"]

\* A literal text.
Lit(text) == [op |-> "lit", text |-> text, ci |-> FALSE]

\* A literal text under (?i), given in lower case.
LitI(text) == [op |-> "lit", text |-> text, ci |-> TRUE]

NoCaptures == [n \in 1..4 |-> <<0, 0>>]

\* The element of a singleton set: The({e(x) : x \in {v}}) is e(v), with v
\* evaluated once however often e uses it.
The(S) == CHOOSE x \in S : TRUE

\* seqs[lo] \o ... \o seqs[hi]
RECURSIVE Flatten(_, _, _)
Flatten(seqs, lo, hi) ==
    IF lo > hi THEN <<>>
    ELSE IF lo = hi THEN seqs[lo]
    ELSE Flatten(seqs, lo, (lo + hi) \div 2) \o Flatten(seqs, (lo + hi) \div 2 + 1, hi)

\* Every way `r` matches `t` from position i, in order of preference; each
\* is the position after the match and the captures.
RECURSIVE Match(_, _, _, _), MatchAlt(_, _, _, _, _), MatchSeq(_, _, _, _, _)
Match(r, t, i, caps) ==
    CASE r.op = "lex" ->
            IF i <= Len(t) /\ (IF r.ci THEN Lower(t[i]) \in r.set ELSE t[i] \in r.set)
            THEN <<[pos |-> i + 1, caps |-> caps]>> ELSE <<>>
      [] r.op = "lit" ->
            IF /\ i + Len(r.text) - 1 <= Len(t)
               /\ \A k \in 1..Len(r.text) :
                    (IF r.ci THEN Lower(t[i + k - 1]) ELSE t[i + k - 1]) = r.text[k]
            THEN <<[pos |-> i + Len(r.text), caps |-> caps]>> ELSE <<>>
      [] r.op = "letters" ->
            (IF IsLetters(At(t, i)) THEN <<[pos |-> i + 1, caps |-> caps]>> ELSE <<>>)
            \o <<[pos |-> i, caps |-> caps]>>
      [] r.op = "bos" -> IF i = 1 THEN <<[pos |-> i, caps |-> caps]>> ELSE <<>>
      [] r.op = "eos" -> IF i = Len(t) + 1 THEN <<[pos |-> i, caps |-> caps]>> ELSE <<>>
      [] r.op = "wb" ->
            IF IsWord(At(t, i - 1)) # IsWord(At(t, i))
            THEN <<[pos |-> i, caps |-> caps]>> ELSE <<>>
      [] r.op = "dotstar" ->
            [k \in 1..(Len(t) + 2 - i) |-> [pos |-> Len(t) + 2 - k, caps |-> caps]]
      [] r.op = "seq" -> MatchSeq(r.of, 1, t, i, caps)
      [] r.op = "alt" -> MatchAlt(r.of, 1, t, i, caps)
      [] r.op = "opt" -> Match(r.r, t, i, caps) \o <<[pos |-> i, caps |-> caps]>>
      [] r.op = "star" ->
            The({Flatten([j \in 1..Len(found) |->
                              IF found[j].pos > i
                              THEN Match(r, t, found[j].pos, found[j].caps) ELSE <<>>],
                          1, Len(found))
                 : found \in {Match(r.r, t, i, caps)}})
            \o <<[pos |-> i, caps |-> caps]>>
      [] r.op = "group" ->
            The({[k \in 1..Len(inner) |->
                    [pos |-> inner[k].pos,
                     caps |-> [inner[k].caps EXCEPT ![r.n] = <<i, inner[k].pos>>]]]
                 : inner \in {Match(r.r, t, i, caps)}})

\* rs[k], rs[k+1], ... as alternatives, the earlier one preferred
MatchAlt(rs, k, t, i, caps) ==
    IF k > Len(rs) THEN <<>>
    ELSE Match(rs[k], t, i, caps) \o MatchAlt(rs, k + 1, t, i, caps)

\* rs[k], rs[k+1], ... in sequence: after each match of rs[k], the rest
MatchSeq(rs, k, t, i, caps) ==
    IF k > Len(rs) THEN <<[pos |-> i, caps |-> caps]>>
    ELSE The({Flatten([j \in 1..Len(found) |->
                          MatchSeq(rs, k + 1, t, found[j].pos, found[j].caps)],
                      1, Len(found))
              : found \in {Match(rs[k], t, i, caps)}})

\* Whether `r` matches at position i, and the preferred match there.
MatchesAt(r, t, i) == Match(r, t, i, NoCaptures) # <<>>

MatchAt(r, t, i) ==
    The({[start |-> i, end |-> m.pos, caps |-> m.caps] : m \in {Head(Match(r, t, i, NoCaptures))}})

\* Regex::is_match
IsMatch(r, t) == \E text \in {t} : \E i \in 1..(Len(text) + 1) : MatchesAt(r, text, i)

\* Regex::captures / Regex::find: the leftmost match (IsMatch must hold).
Captures(r, t) ==
    The({MatchAt(r, text, CHOOSE i \in 1..(Len(text) + 1) :
            /\ MatchesAt(r, text, i)
            /\ \A j \in 1..(i - 1) : ~MatchesAt(r, text, j))
         : text \in {t}})

\* The text of capture group n (empty when the group took no part).
Cap(t, m, n) == SubSeq(t, m.caps[n][1], m.caps[n][2] - 1)

\* A replacement string: literal lexemes and group references $1 .. $4.
GroupRef(x) == CASE x = "$1" -> 1 [] x = "$2" -> 2 [] x = "$3" -> 3 [] x = "$4" -> 4 [] OTHER -> 0

RECURSIVE Expand(_, _, _)
Expand(template, t, m) ==
    IF template = <<>> THEN <<>>
    ELSE (IF GroupRef(Head(template)) # 0
          THEN Cap(t, m, GroupRef(Head(template)))
          ELSE <<Head(template)>>)
         \o Expand(Tail(template), t, m)

\* Regex::replace: the leftmost match only.
Replace(r, t, template) ==
    The({IF ~IsMatch(r, text) THEN text
         ELSE The({SubSeq(text, 1, m.start - 1) \o Expand(template, text, m)
                   \o SubSeq(text, m.end, Len(text))
                   : m \in {Captures(r, text)}})
         : text \in {t}})

\* Regex::replace_all: every non-overlapping match, left to right; from
\* position i on, the text up to the next non-empty match is kept.
RECURSIVE ReplaceAllFrom(_, _, _, _)
ReplaceAllFrom(r, t, template, i) ==
    The({IF starts = {} THEN SubSeq(t, i, Len(t))
         ELSE The({SubSeq(t, i, m.start - 1) \o Expand(template, t, m)
                   \o ReplaceAllFrom(r, t, template, m.end)
                   : m \in {MatchAt(r, t, CHOOSE j \in starts : \A k \in starts : j <= k)}})
         : starts \in {{j \in i..Len(t) : /\ MatchesAt(r, t, j)
                                          /\ MatchAt(r, t, j).end > j}}})

ReplaceAll(r, t, template) == The({ReplaceAllFrom(r, text, template, 1) : text \in {t}})

(***************************************************************************)
(* The texts the source names, as lexeme sequences.                        *)
(***************************************************************************)
\* Words separated by single spaces.
RECURSIVE Words(_)
Words(ws) == IF Len(ws) <= 1 THEN ws ELSE <<Head(ws), " ">> \o Words(Tail(ws))

Sp == Lex({" "})

Comma == Lex({","})

Colon == Lex({":"})

Mon3 == Lex(ThreeLetters)

D12 == Lex(ShortDigits)

\* [a-z]{3} \d{1,2}
MonDay == Cat(<<Mon3, Sp, D12>>)

DangerousGoodsOnly == Words(<<"Dangerous", "goods", "only">>)

NoPassengersDGSailingOnly ==
    Words(<<"No", "passengers", "permitted", "-", "DG", "Sailing", "only">>)

NoPassengersOnlySailsOn ==
    Words(<<"No", "passengers", "permitted", "-", "only", "sails", "on">>) \o <<" ">>

SaturnaNote ==
    <<"Saturna", "-">> \o
    Words(<<"bound", "vehicles", "arriving", "at", "the", "booth", "at", "least", "15",
            "minutes", "prior", "to", "sailing", "time", "are", "offered", "priority",
            "on", "this", "sailing">>)

FootPassengersOnly == Words(<<"Foot", "passengers", "only">>)

JustAfterMidnight == Words(<<"This", "sailing", "departs", "just", "after", "midnight">>)

JustBeforeMidnight == Words(<<"This", "sailing", "departs", "just", "before", "midnight">>)

NoSailingsAvailable ==
    Words(<<"No", "sailings", "available", "on", "this", "route", "for", "these", "dates">>)

(***************************************************************************)
(* The regular expressions of parse_single and parse.                      *)
(***************************************************************************)
\* \.*$
TrailingPeriodsRe == Cat(<<Star(Lex({"."})), Eos>>)

\* (?i)\bApril\b
AprilRe == Cat(<<Wb, LexI({"april"}), Wb>>)

\* , \d{4}\b
YearRe == Cat(<<Comma, Sp, Lex(YearDigits), Wb>>)

\* (?i)( & |, and | and )
ConjunctionRe ==
    Alt(<<Lit(<<" ", "&", " ">>), LitI(<<",", " ", "and", " ">>), LitI(<<" ", "and", " ">>)>>)

\* (?i)\b([a-z]{3})(\d{1,2})\b
MonthDayGluedRe == Cat(<<Wb, Group(1, Mon3), Group(2, D12), Wb>>)

\* (?i)\b([a-z]{3} \d{1,2}) ([a-z]{3} \d{1,2})\b
AdjacentDatesRe == Cat(<<Wb, Group(1, MonDay), Sp, Group(2, MonDay), Wb>>)

\* (?i)\b([a-z]{3}) (\d{1,2}),? (\d{1,2}),? (\d{1,2})\b
ThreeDaysRe ==
    Cat(<<Wb, Group(1, Mon3), Sp, Group(2, D12), Opt(Comma), Sp, Group(3, D12),
          Opt(Comma), Sp, Group(4, D12), Wb>>)

\* (?i)\b([a-z]{3}) (\d{1,2}),? (\d{1,2})\b
TwoDaysRe ==
    Cat(<<Wb, Group(1, Mon3), Sp, Group(2, D12), Opt(Comma), Sp, Group(3, D12), Wb>>)

\* (?i)^([a-z]{3} \d{1,2})(, [a-z]{3} \d{1,2})* only$
TrailingOnlyRe ==
    Cat(<<Bos, Group(1, MonDay), Star(Group(2, Cat(<<Comma, Sp, MonDay>>))),
          Sp, LexI({"only"}), Eos>>)

\* (?i)^(DG Sailing only .*), no other passengers permitted$
NoOtherPassengersRe ==
    Cat(<<Bos, Group(1, Cat(<<LitI(Words(<<"dg", "sailing", "only">>) \o <<" ">>), DotStar>>)),
          LitI(<<",", " ">> \o Words(<<"no", "other", "passengers", "permitted">>)), Eos>>)

\* (?i)^\*(\d+:\d+ [AP]M) (Not Available|Only) on: (.*)\*
StarRe ==
    Cat(<<Bos, Lex({"*"}),
          Group(1, Cat(<<Lex(DigitLexemes), Colon, Lex(DigitLexemes), Sp, LexI({"am", "pm"})>>)),
          Sp,
          Group(2, Alt(<<LitI(Words(<<"not", "available">>)), LitI(<<"only">>)>>)),
          Sp, LexI({"on"}), Colon, Sp, Group(3, DotStar), Lex({"*"})>>)

\* (?i)^(Except|Not Available|Only|DG Sailing only)( on)?:? (.*)
BlanketRe ==
    Cat(<<Bos,
          Group(1, Alt(<<LitI(<<"except">>), LitI(Words(<<"not", "available">>)),
                         LitI(<<"only">>), LitI(Words(<<"dg", "sailing", "only">>))>>)),
          Opt(Group(2, LitI(<<" ", "on">>))), Opt(Colon), Sp, Group(3, DotStar)>>)

\* ([!#*]*)\s*
MarkerRe == Cat(<<Group(1, Star(Lex({"!", "#", "*"}))), Star(Sp)>>)

\* [\.,]$
TrailingPunctuationRe == Cat(<<Lex({".", ","}), Eos>>)

\* ^(Dangerous goods only)|(No passengers permitted - DG Sailing only)|(No passengers permitted - only sails on .*)$
\* The alternation binds weaker than the anchors: ^ belongs to the first
\* alternative only and $ to the last only.
DgOnlyRe ==
    Alt(<<Cat(<<Bos, Group(1, Lit(DangerousGoodsOnly))>>),
          Group(2, Lit(NoPassengersDGSailingOnly)),
          Cat(<<Group(3, Cat(<<Lit(NoPassengersOnlySailsOn), DotStar>>)), Eos>>)>>)

\* (?i)^((Except|Not Available|Only)( on)?:? [a-z]* \d*) (! .*)
CompoundRe ==
    Cat(<<Bos,
          Group(1, Cat(<<Group(2, Alt(<<LitI(<<"except">>), LitI(Words(<<"not", "available">>)),
                                        LitI(<<"only">>)>>)),
                         Opt(Group(3, LitI(<<" ", "on">>))), Opt(Colon), Sp, Letters, Sp,
                         Opt(Lex(DigitLexemes))>>)),
          Sp, Group(4, Cat(<<Lex({"!"}), Sp, DotStar>>))>>)

(***************************************************************************)
(* The Text Normalizer: the ten rewrites at the head of parse_single.      *)
(***************************************************************************)
Rewrites ==
    <<[re |-> TrailingPeriodsRe, all |-> FALSE, with |-> <<>>],
      [re |-> AprilRe, all |-> TRUE, with |-> <<"Apr">>],
      [re |-> YearRe, all |-> TRUE, with |-> <<>>],
      [re |-> ConjunctionRe, all |-> TRUE, with |-> <<",", " ">>],
      [re |-> MonthDayGluedRe, all |-> TRUE, with |-> <<"$1", " ", "$2">>],
      [re |-> AdjacentDatesRe, all |-> TRUE, with |-> <<"$1", ",", " ", "$2">>],
      [re |-> ThreeDaysRe, all |-> TRUE,
       with |-> <<"$1", " ", "$2", ",", " ", "$1", " ", "$3", ",", " ", "$1", " ", "$4">>],
      [re |-> TwoDaysRe, all |-> TRUE,
       with |-> <<"$1", " ", "$2", ",", " ", "$1", " ", "$3">>],
      [re |-> TrailingOnlyRe, all |-> FALSE, with |-> <<"Only", " ", "$1", "$2">>],
      [re |-> NoOtherPassengersRe, all |-> FALSE, with |-> <<"$1">>]>>

\* The rewrites steps[k], steps[k+1], ... applied in turn, each to the
\* result of the one before it.
RECURSIVE ApplyRewrites(_, _, _)
ApplyRewrites(steps, k, t) ==
    IF k > Len(steps) THEN t
    ELSE The({ApplyRewrites(steps, k + 1, rewritten) : rewritten \in
                {IF steps[k].all THEN ReplaceAll(steps[k].re, t, steps[k].with)
                 ELSE Replace(steps[k].re, t, steps[k].with)}})

Normalize(annotation_text) == ApplyRewrites(Rewrites, 1, annotation_text)

\* str::trim
RECURSIVE TrimStart(_)
TrimStart(t) == IF t # <<>> /\ Head(t) = " " THEN TrimStart(Tail(t)) ELSE t

RECURSIVE TrimEnd(_)
TrimEnd(t) == IF t # <<>> /\ t[Len(t)] = " " THEN TrimEnd(SubSeq(t, 1, Len(t) - 1)) ELSE t

Trim(t) == The({TrimEnd(TrimStart(text)) : text \in {t}})

\* str::split on the separator characters, each piece trimmed
\* (captures[3].split(..).map(|s| s.trim())).
RECURSIVE SplitTrim(_, _, _)
SplitTrim(t, separators, piece) ==
    The({IF rest = <<>> THEN <<Trim(sofar)>>
         ELSE IF Head(rest) \in separators
              THEN <<Trim(sofar)>> \o SplitTrim(Tail(rest), separators, <<>>)
              ELSE SplitTrim(Tail(rest), separators, Append(sofar, Head(rest)))
         : rest \in {t}, sofar \in {piece}})

\* CompoundPieces with the note captured after its '! ' marker.
CompoundPiecesUnmarkedNote(annotation_text) ==
    LET m == Captures(CompoundRe, annotation_text)
        note == Cap(annotation_text, m, 4)
    IN  <<Cap(annotation_text, m, 1), SubSeq(note, 3, Len(note))>>

\* The two strings a compound string is split into: captures[1], captures[4].
CompoundPieces(annotation_text) ==
    LET captures == Captures(CompoundRe, annotation_text)
    IN  <<Cap(annotation_text, captures, 1), Cap(annotation_text, captures, 4)>>

(***************************************************************************)
(* The annotation strings handed to Annotations::parse.                    *)
(***************************************************************************)
Jul(d) == <<"Jul", " ", d>>

\* "Except Jul 1"
ExceptJul1 == <<"Except", " ">> \o Jul("1")

\* "Not Available on: Sep 9, Jul 2"
NotAvailableSep9Jul2 ==
    Words(<<"Not", "Available", "on">>) \o <<":", " ", "Sep", " ", "9", ",", " ">> \o Jul("2")

\* "Only: Jul 1 & Jul 8."
OnlyJul1AndJul8 == <<"Only", ":", " ">> \o Jul("1") \o <<" ", "&", " ">> \o Jul("8") \o <<".">>

\* "DG Sailing only on Jul 2, no other passengers permitted"
DgSailingOnlyJul2 ==
    Words(<<"DG", "Sailing", "only", "on">>) \o <<" ">> \o Jul("2") \o <<",", " ">>
    \o Words(<<"no", "other", "passengers", "permitted">>)

\* "except Jul 1"
LowerExceptJul1 == <<"except", " ">> \o Jul("1")

\* "Except: Jul 8, Jul 32, Jul 2"
ExceptJul8Jul32Jul2 ==
    <<"Except", ":", " ">> \o Jul("8") \o <<",", " ">> \o Jul("32") \o <<",", " ">> \o Jul("2")

\* "*11:00 PM Not Available on: Jul 1, Sep 9, Jul 2*"
StarNotAvailable ==
    <<"*", "11", ":", "00", " ", "PM", " ">> \o Words(<<"Not", "Available", "on">>)
    \o <<":", " ">> \o Jul("1") \o <<",", " ", "Sep", " ", "9", ",", " ">> \o Jul("2") \o <<"*">>

\* "*11:00 pm Only on: Jul 8*"
StarOnly ==
    <<"*", "11", ":", "00", " ", "pm", " ">> \o Words(<<"Only", "on">>) \o <<":", " ">>
    \o Jul("8") \o <<"*">>

\* "*11:00 PM not available on: Jul 1*"
StarLowerVerb ==
    <<"*", "11", ":", "00", " ", "PM", " ">> \o Words(<<"not", "available", "on">>)
    \o <<":", " ">> \o Jul("1") \o <<"*">>

\* "*13:00 PM Only on: Jul 1*"
StarBadTime ==
    <<"*", "13", ":", "00", " ", "PM", " ">> \o Words(<<"Only", "on">>) \o <<":", " ">>
    \o Jul("1") \o <<"*">>

\* "*8:15 AM Only on: Jul 1, Jul 32*"
StarBadDate ==
    <<"*", "8", ":", "15", " ", "AM", " ">> \o Words(<<"Only", "on">>) \o <<":", " ">>
    \o Jul("1") \o <<",", " ">> \o Jul("32") \o <<"*">>

\* "Dangerous goods only on weekends"
DangerousGoodsOnlyOnWeekends == DangerousGoodsOnly \o <<" ">> \o Words(<<"on", "weekends">>)

\* "! Saturna-bound vehicles ... on this sailing"
MarkedSaturnaNote == <<"!", " ">> \o SaturnaNote

\* "Except Jul 1 ! Foot passengers only"
ExceptJul1FootPassengersOnly == ExceptJul1 \o <<" ", "!", " ">> \o FootPassengersOnly

\* "Only on: Jul 2 ! Saturna-bound vehicles ... on this sailing"
OnlyJul2SaturnaNote ==
    Words(<<"Only", "on">>) \o <<":", " ">> \o Jul("2") \o <<" ">> \o MarkedSaturnaNote

\* "Some unrecognized new phrase"
SomeUnrecognizedNewPhrase == Words(<<"Some", "unrecognized", "new", "phrase">>)

\* "Note: This sailing departs just after midnight."
NoteJustAfterMidnight == <<"Note", ":", " ">> \o JustAfterMidnight \o <<".">>

\* "Jul 1, 2 only"
Jul1And2Only == Jul("1") \o <<",", " ", "2", " ", "only">>

\* "Only: April 8, 2024"
OnlyApril8 == <<"Only", ":", " ", "April", " ", "8", ",", " ", "2024">>

Corpus ==
    {ExceptJul1, NotAvailableSep9Jul2, OnlyJul1AndJul8, DgSailingOnlyJul2, LowerExceptJul1,
     ExceptJul8Jul32Jul2, StarNotAvailable, StarOnly, StarLowerVerb, StarBadTime, StarBadDate,
     DangerousGoodsOnly, DangerousGoodsOnlyOnWeekends, FootPassengersOnly, MarkedSaturnaNote,
     ExceptJul1FootPassengersOnly, OnlyJul2SaturnaNote, SomeUnrecognizedNewPhrase,
     NoSailingsAvailable, NoteJustAfterMidnight, Jul1And2Only, OnlyApril8}

\* The lists of at most n strings of the corpus.
InputLists(n) == UNION {[1..k -> Corpus] : k \in 0..n}

\* The DG-unconditional phrasings.
DgUnconditional ==
    {DangerousGoodsOnly, NoPassengersDGSailingOnly,
     NoPassengersOnlySailsOn \o <<"weekends">>}

\* Every string parse and parse_single can be handed: the corpus, the
\* pieces of its compound strings and the DG-unconditional phrasings.
Handed ==
    Corpus \cup DgUnconditional
        \cup UNION {{CompoundPieces(t)[1], CompoundPieces(t)[2]} :
                          t \in {x \in Corpus : IsMatch(CompoundRe, x)}}

\* Normalize and the compound test of parse, tabulated over the strings handed.
NormalizedTable == [t \in Handed |-> Normalize(t)]

CompoundTable == [t \in Handed |-> IsMatch(CompoundRe, t)]

Normalized(t) == IF t \in Handed THEN NormalizedTable[t] ELSE Normalize(t)

IsCompound(t) == IF t \in Handed THEN CompoundTable[t] ELSE IsMatch(CompoundRe, t)

(***************************************************************************)
(* External primitives: DateRange::parse_date_within and Time::parse.      *)
(***************************************************************************)
\* The schedule's date range: July 1 .. July MaxDay.
DateRange == [month |-> "Jul", from |-> 1, to |-> MaxDay]

DigitValue(x) ==
    CASE x = "1" -> 1 [] x = "2" -> 2 [] x = "8" -> 8 [] x = "9" -> 9 [] x = "00" -> 0
      [] x = "11" -> 11 [] x = "13" -> 13 [] x = "15" -> 15 [] x = "32" -> 32
      [] x = "2024" -> 2024 [] OTHER -> -1

\* Days of the months the corpus names; 0 for a word that is no month.
MonthLength(m) == CASE m \in {"Jul"} -> 31 [] m \in {"Sep", "Apr"} -> 30 [] OTHER -> 0

\* DateRange::parse_date_within: Err when the token is no "Mon D" date,
\* Ok(None) when the date lies outside the range, Ok(Some(date)) otherwise.
ParseDateWithin(date_range, date_text) ==
    IF /\ Len(date_text) = 3
       /\ date_text[2] = " "
       /\ MonthLength(date_text[1]) > 0
       /\ DigitValue(date_text[3]) \in 1..MonthLength(date_text[1])
       /\ date_text[3] # "00"
    THEN LET day == DigitValue(date_text[3])
         IN  IF date_text[1] = date_range.month /\ day \in date_range.from..date_range.to
             THEN [ok |-> TRUE, some |-> TRUE, date |-> day]
             ELSE [ok |-> TRUE, some |-> FALSE, date |-> 0]
    ELSE [ok |-> FALSE, some |-> FALSE, date |-> 0]

\* Time::parse with "[hour repr:12 padding:none]:[minute] [period case_sensitive:false]"
ParseTime(time_text) ==
    IF /\ Len(time_text) = 5
       /\ DigitValue(time_text[1]) \in 1..12
       /\ time_text[3] \in {"00", "11", "13", "15", "32"}
       /\ DigitValue(time_text[3]) \in 0..59
    THEN [ok |-> TRUE,
          time |-> [hour |-> DigitValue(time_text[1]), minute |-> DigitValue(time_text[3]),
                    period |-> Lower(time_text[5])]]
    ELSE [ok |-> FALSE, time |-> [hour |-> 0, minute |-> 0, period |-> ""]]

(***************************************************************************)
(* Annotations.                                                            *)
(***************************************************************************)
AnnotationsNew ==
    [dg_dates |-> AnnotationDatesNew,
     is_dg_only |-> FALSE,
     star_dates |-> AnnotationDatesNew,
     star_dates_by_time |-> [t \in {} |-> AnnotationDatesNew],
     all_dates |-> AnnotationDatesNew,
     all_notes |-> AnnotationNotesNew]

Ok == [ok |-> TRUE]

\* An error: its message, the offending piece of text, the (normalized)
\* annotation the inner message quotes, and the annotation text of the outer
\* context "Failed to parse annotation".
Err(kind, what, within) == [ok |-> FALSE, kind |-> kind, what |-> what, within |-> within, text |-> <<>>]

WithContext(res, annotation_text) ==
    IF res.ok THEN res ELSE [res EXCEPT !.text = annotation_text]

\* DateLoop leaving the loop at the first token outside the DateRange.
RECURSIVE DateLoopStopsOutOfRange(_, _, _)
DateLoopStopsOutOfRange(dates_hashset, date_range, tokens) ==
    IF tokens = <<>> THEN [set |-> dates_hashset, ok |-> TRUE, token |-> <<>>]
    ELSE LET date_within_range == ParseDateWithin(date_range, Head(tokens))
         IN  IF ~date_within_range.ok
             THEN [set |-> dates_hashset, ok |-> FALSE, token |-> Head(tokens)]
             ELSE IF date_within_range.some
             THEN DateLoopStopsOutOfRange(dates_hashset \cup {date_within_range.date},
                                          date_range, Tail(tokens))
             ELSE [set |-> dates_hashset, ok |-> TRUE, token |-> <<>>]

\* The loop over the date tokens: the set after the loop, and the token that
\* ended it with an error, if one did.
RECURSIVE DateLoop(_, _, _)
DateLoop(dates_hashset, date_range, tokens) ==
    The({IF rest = <<>> THEN [set |-> inserted, ok |-> TRUE, token |-> <<>>]
         ELSE LET date_text == Head(rest)
                  date_within_range == ParseDateWithin(date_range, date_text)
              IN  IF ~date_within_range.ok
                  THEN [set |-> inserted, ok |-> FALSE, token |-> date_text]
                  ELSE IF date_within_range.some
                  THEN DateLoop(inserted \cup {date_within_range.date}, date_range, Tail(rest))
                  ELSE DateLoop(inserted, date_range, Tail(rest))
         : rest \in {tokens}, inserted \in {dates_hashset}})

\* EntryOrInsert as HashMap::insert(time, AnnotationDates::new()).
EntryOrInsertOverwrites(map, time) ==
    [k \in DOMAIN map \cup {time} |-> IF k = time THEN AnnotationDatesNew ELSE map[k]]

\* HashMap::entry(time).or_insert_with(AnnotationDates::new)
EntryOrInsert(map, time) ==
    IF time \in DOMAIN map THEN map
    ELSE [k \in DOMAIN map \cup {time} |-> IF k = time THEN AnnotationDatesNew ELSE map[k]]

\* StarField with the two sets exchanged.
StarFieldExchanged(verb) ==
    CASE verb = Words(<<"Not", "Available">>) -> "only"
      [] verb = <<"Only">> -> "except"
      [] OTHER -> ""

\* The match on captures[2] of the star arm: the set of the entry the dates
\* go to ("" for the arm that bails).
StarField(verb) ==
    CASE verb = Words(<<"Not", "Available">>) -> "except"
      [] verb = <<"Only">> -> "only"
      [] OTHER -> ""

\* The star arm of parse_single (the text matches StarRe).
StarArm(self, date_range, annotation_text) ==
    The({
        LET time_text == Cap(annotation_text, captures, 1)
            parsed == ParseTime(time_text)
            time == parsed.time
            with_entry == [self EXCEPT !.star_dates_by_time = EntryOrInsert(@, time)]
            verb == Cap(annotation_text, captures, 2)
            field == StarField(verb)
        IN  IF ~parsed.ok
            THEN [self |-> self, result |-> Err("Failed to parse time", time_text, <<>>)]
            ELSE IF field = ""
            THEN [self |-> with_entry,
                  result |-> Err("Expect \"Not Available\" or \"Only\"", verb, <<>>)]
            ELSE The({
                [self |-> [with_entry EXCEPT !.star_dates_by_time[time][field] = loop.set],
                 result |-> IF loop.ok THEN Ok
                            ELSE Err("Failed to parse sailing date", loop.token,
                                     annotation_text)]
                : loop \in {DateLoop(with_entry.star_dates_by_time[time][field], date_range,
                                     SplitTrim(Cap(annotation_text, captures, 3), {","}, <<>>))}})
        : captures \in {Captures(StarRe, annotation_text)}})

\* The match on captures[1] of the blanket arm: the set the dates go to.
BlanketTarget(keyword) ==
    CASE keyword \in {<<"Except">>, Words(<<"Not", "Available">>)} -> <<"all_dates", "except">>
      [] keyword = <<"Only">> -> <<"all_dates", "only">>
      [] keyword = Words(<<"DG", "Sailing", "only">>) -> <<"dg_dates", "only">>
      [] OTHER -> <<>>

\* The blanket arm of parse_single (the text matches BlanketRe, not StarRe).
BlanketArm(self, date_range, annotation_text) ==
    The({
        LET keyword == Cap(annotation_text, captures, 1)
            target == BlanketTarget(keyword)
        IN  IF target = <<>>
            THEN [self |-> self,
                  result |-> Err("Expect \"Except\", \"Only\", or \"DG Sailing only\"",
                                 keyword, <<>>)]
            ELSE The({
                [self |-> [self EXCEPT ![target[1]][target[2]] = loop.set],
                 result |-> IF loop.ok THEN Ok
                            ELSE Err("Failed to parse date", loop.token, annotation_text)]
                : loop \in {DateLoop(self[target[1]][target[2]], date_range,
                                     SplitTrim(Cap(annotation_text, captures, 3),
                                               {",", "&"}, <<>>))}})
        : captures \in {Captures(BlanketRe, annotation_text)}})

\* The text the fallback arm classifies: markers followed by one space,
\* one trailing '.' or ',' removed, trimmed.
FallbackRewrites ==
    <<[re |-> MarkerRe, all |-> FALSE, with |-> <<"$1", " ">>],
      [re |-> TrailingPunctuationRe, all |-> FALSE, with |-> <<>>]>>

CleanedText(annotation_text) == Trim(ApplyRewrites(FallbackRewrites, 1, annotation_text))

SaturnaNoteKey ==
    "Saturna-bound vehicles arriving at the booth at least 15 minutes prior to sailing time are offered priority on this sailing"

\* The key a fixed phrase is recorded under in all_notes ("" for none).
NoteKey(cleaned) ==
    CASE cleaned = <<"!", " ">> \o SaturnaNote -> SaturnaNoteKey
      [] cleaned = FootPassengersOnly -> "Foot passengers only"
      [] cleaned = <<"Note", ":", " ">> \o JustAfterMidnight ->
            "This sailing departs just after midnight"
      [] cleaned = JustBeforeMidnight -> "This sailing departs just before midnight"
      [] OTHER -> ""

\* FallbackArm whose DG arm empties dg_dates as well.
FallbackArmResetsDgDates(self, annotation_text) ==
    The({
        IF IsMatch(DgOnlyRe, cleaned)
        THEN [self |-> [self EXCEPT !.is_dg_only = TRUE, !.dg_dates = AnnotationDatesNew],
              result |-> Ok]
        ELSE IF NoteKey(cleaned) # ""
        THEN [self |-> [self EXCEPT !.all_notes = TextDateRestriction(@, NoteKey(cleaned))],
              result |-> Ok]
        ELSE IF cleaned = NoSailingsAvailable
        THEN [self |-> self, result |-> Ok]
        ELSE [self |-> self, result |-> Err("Unrecognized annotation text", cleaned, <<>>)]
        : cleaned \in {CleanedText(annotation_text)}})

\* The fallback arm of parse_single.
FallbackArm(self, annotation_text) ==
    The({
        IF IsMatch(DgOnlyRe, cleaned)
        THEN [self |-> [self EXCEPT !.is_dg_only = TRUE], result |-> Ok]
        ELSE IF NoteKey(cleaned) # ""
        THEN [self |-> [self EXCEPT !.all_notes = TextDateRestriction(@, NoteKey(cleaned))],
              result |-> Ok]
        ELSE IF cleaned = NoSailingsAvailable
        THEN [self |-> self, result |-> Ok]
        ELSE [self |-> self, result |-> Err("Unrecognized annotation text", cleaned, <<>>)]
        : cleaned \in {CleanedText(annotation_text)}})

\* ParseSingle that gives back self as it was when the call fails.
ParseSingleRestoresOnError(self, date_range, annotation_text) ==
    The({[self |-> IF inner.result.ok THEN inner.self ELSE self,
          result |-> WithContext(inner.result, annotation_text)]
         : inner \in {The({
             IF IsMatch(StarRe, normalized) THEN StarArm(self, date_range, normalized)
             ELSE IF IsMatch(BlanketRe, normalized)
             THEN BlanketArm(self, date_range, normalized)
             ELSE FallbackArm(self, normalized)
             : normalized \in {Normalized(annotation_text)}})}})

\* Annotations::parse_single: self after the call and the Result.
ParseSingle(self, date_range, annotation_text) ==
    The({[self |-> inner.self, result |-> WithContext(inner.result, annotation_text)]
         : inner \in {The({
             IF IsMatch(StarRe, normalized) THEN StarArm(self, date_range, normalized)
             ELSE IF IsMatch(BlanketRe, normalized)
             THEN BlanketArm(self, date_range, normalized)
             ELSE FallbackArm(self, normalized)
             : normalized \in {Normalized(annotation_text)}})}})

\* Annotations::parse as one call: self after it and the Result.
RECURSIVE Parse(_, _, _)
Parse(self, date_range, annotation_texts) ==
    The({IF rest = <<>> THEN [self |-> self, result |-> Ok]
         ELSE The({IF r.result.ok THEN Parse(r.self, date_range, Tail(rest)) ELSE r
                   : r \in {IF IsCompound(Head(rest))
                            THEN Parse(self, date_range, CompoundPieces(Head(rest)))
                            ELSE ParseSingle(self, date_range, Head(rest))}})
         : rest \in {annotation_texts}})

NoSingle == [text |-> <<>>, before |-> AnnotationsNew, result |-> Ok]

(***************************************************************************)
(* Inputs of the two algebra specifications.                               *)
(***************************************************************************)
NoteTexts == {"Foot passengers only", "This sailing departs just before midnight"}

DatesCount(self) == Cardinality(self.only) + Cardinality(self.except)

RECURSIVE NotesCount(_)
NotesCount(map) ==
    IF DOMAIN map = {} THEN 0
    ELSE LET k == CHOOSE x \in DOMAIN map : TRUE
         IN  DatesCount(map[k]) + NotesCount([x \in DOMAIN map \ {k} |-> map[x]])

\* AnnotationDates holding a single date.
SingleDates ==
    {[only |-> {d}, except |-> {}] : d \in Days} \cup {[only |-> {}, except |-> {d}] : d \in Days}

\* Registries holding one note with at most one date.
SingleNotes ==
    {[k \in {text} |-> ad] : text \in NoteTexts, ad \in SingleDates \cup {AnnotationDatesNew}}

\* Base restrictions of a sailing (its pre-existing recurrence restriction).
BaseRestrictions ==
    {All, Only({1}), Except({1}), Only({2, MaxDay}), Except({2, MaxDay})}

ParserIdle ==
    /\ pc = "idle"
    /\ texts = <<>>
    /\ idx = 0
    /\ queue = <<>>
    /\ ann = AnnotationsNew
    /\ ann0 = AnnotationsNew
    /\ result = Ok
    /\ single = NoSingle
    /\ taken = 0

NoResolution == [op |-> "none"]

DatesIdle == dates = AnnotationDatesNew /\ dres = NoResolution

NotesIdle == notes = AnnotationNotesNew /\ nres = NoResolution

(***************************************************************************)
(* The Sailings component of the front end (sailings_component.rs).  A     *)
(* NaiveDate is a day number; its text is one lexeme, whitespace is the    *)
(* lexeme " ".  The component function runs at every render and reads the  *)
(* clock; the DateInputState lives in use_state and survives the renders.  *)
(***************************************************************************)
None == [some |-> FALSE]

Some(x) == [some |-> TRUE, date |-> x]

\* core::result::Result<NaiveDate, &'static str>, the value of a DateInputState.
ValueOk(date) == [ok |-> TRUE, date |-> date]

ValueErr(err) == [ok |-> FALSE, err |-> err]

MaxDate(a, b) == IF a >= b THEN a ELSE b

MinDate(a, b) == IF a <= b THEN a ELSE b

\* The dates a query or an input can name: day 0 is before the first today.
FormDates == 0..MaxFormDate

\* NaiveDate::to_string
NaiveDateToString(date) == <<ToString(date)>>

\* str::parse::<NaiveDate>
NaiveDateParse(text) ==
    IF Len(text) = 1 /\ \E date \in FormDates : ToString(date) = text[1]
    THEN Some(CHOOSE date \in FormDates : ToString(date) = text[1])
    ELSE None

\* The texts typed into the date input.
DateInputs ==
    {<<>>, <<" ">>, <<"x">>}
        \cup {NaiveDateToString(date) : date \in FormDates}
        \cup {<<" ">> \o NaiveDateToString(date) \o <<" ">> : date \in FormDates}

\* The SchedulesState values: the latest date_range.to of the schedules of
\* the terminal pair is all the form reads of a loaded map.
Loading == [kind |-> "Loading"]

Failed == [kind |-> "Failed"]

Loaded(to) == [kind |-> "Loaded", to |-> to]

\* query_date_or_today of sailings_component.
QueryDateOrToday(query_date, today) ==
    IF ~query_date.some THEN today
    ELSE IF query_date.date < today THEN today
    ELSE query_date.date

\* The initial value of use_state.
InitialDateInputState(query_date_or_today) ==
    [input |-> NaiveDateToString(query_date_or_today), value |-> ValueOk(query_date_or_today)]

\* SailingsModel::new: the view_date and max_date of the model.
SailingsModelNew(schedules, input_state, query_date_or_today) ==
    IF ~input_state.value.ok
    THEN [view_date |-> query_date_or_today, max_date |-> query_date_or_today]
    ELSE IF schedules.kind # "Loaded"
    THEN [view_date |-> input_state.value.date, max_date |-> input_state.value.date]
    ELSE [view_date |-> input_state.value.date,
          max_date |-> MaxDate(input_state.value.date,
                               IF schedules.to.some THEN schedules.to.date
                               ELSE input_state.value.date)]

\* sailings_component: the FormModel a render builds.
SailingsComponent(query_date, today, schedules, input_state) ==
    LET sailings_model ==
            SailingsModelNew(schedules, input_state, QueryDateOrToday(query_date, today))
    IN  [query_date |-> query_date,
         today |-> today,
         view_date |-> sailings_model.view_date,
         max_date |-> sailings_model.max_date]

\* What a callback does: the DateInputState it sets and the 'date' of the
\* query it pushes to the history, if any.
Effect(set, push) == [set |-> set, push |-> push]

\* FormModel::onchange_date_input_callback
OnchangeDateInputCallback(self, orig_date_input) ==
    LET trimmed_date_input == Trim(orig_date_input)
        parsed == NaiveDateParse(trimmed_date_input)
    IN  IF trimmed_date_input = <<>>
        THEN Effect([input |-> NaiveDateToString(self.today), value |-> ValueOk(self.today)],
                    Some(None))
        ELSE IF parsed.some
        THEN IF parsed.date < self.today
             THEN Effect([input |-> orig_date_input,
                          value |-> ValueErr("Date may not be in the past.")], None)
             ELSE Effect([input |-> NaiveDateToString(parsed.date),
                          value |-> ValueOk(parsed.date)], Some(Some(parsed.date)))
        ELSE Effect([input |-> orig_date_input,
                     value |-> ValueErr("Date format must be YYYY-MM-DD.")], None)

\* FormModel::onclick_adjust_date_button_callback
OnclickAdjustDateButtonCallback(self, opt_new_date) ==
    LET new_date == IF opt_new_date.some THEN opt_new_date.date ELSE self.today
    IN  Effect([input |-> NaiveDateToString(new_date), value |-> ValueOk(new_date)],
               Some(opt_new_date))

\* The disabled attributes of the three date buttons in FormModel::html.
PreviousDisabled(self, input_state) ==
    IF input_state.value.ok THEN input_state.value.date <= self.today ELSE TRUE

NextDisabled(self, input_state) ==
    IF input_state.value.ok THEN input_state.value.date >= self.max_date ELSE TRUE

TodayDisabled(self) == ~self.query_date.some

NoEvent == [op |-> "none", input |-> <<>>, self |-> <<>>, set |-> <<>>, push |-> None]

FormIdle ==
    /\ clock = 1
    /\ props_date = None
    /\ schedules_state = Loading
    /\ date_input_state = InitialDateInputState(1)
    /\ form = SailingsComponent(None, 1, Loading, InitialDateInputState(1))
    /\ last = NoEvent

(***************************************************************************)
(* Spec: calls of Annotations::parse on a fresh Annotations.  A nested     *)
(* parse call iterates its two strings before the loop of its caller       *)
(* goes on, and an error leaves every loop at once (the ? operator), so    *)
(* the strings still to be taken by nested calls form one queue.           *)
(***************************************************************************)
Init == ParserIdle /\ DatesIdle /\ NotesIdle /\ FormIdle

\* The string the innermost loop takes next.
NextText == IF queue # <<>> THEN Head(queue) ELSE texts[idx + 1]

HasNext == queue # <<>> \/ idx < Len(texts)

\* parse is called with a list of annotation strings.
ParseCall ==
    /\ pc \in {"idle", "returned"}
    /\ \E annotation_texts \in InputLists(MaxTexts - taken) :
        /\ texts' = annotation_texts
        /\ taken' = taken + Len(annotation_texts)
    /\ idx' = 0
    /\ queue' = <<>>
    /\ ann0' = ann
    /\ pc' = "loop"
    /\ single' = NoSingle
    /\ UNCHANGED <<ann, result, datesVars, notesVars, formVars>>

\* A loop takes a compound string: parse is called on its two pieces.
ParseCompound ==
    /\ pc = "loop"
    /\ HasNext
    /\ IsCompound(NextText)
    /\ queue' = CompoundPieces(NextText) \o (IF queue # <<>> THEN Tail(queue) ELSE <<>>)
    /\ idx' = IF queue # <<>> THEN idx ELSE idx + 1
    /\ UNCHANGED <<pc, texts, ann, ann0, result, single, taken, datesVars, notesVars, formVars>>

\* A loop takes any other string: parse_single is called on it; its error
\* is returned by every enclosing parse call.
ParseSingleCall ==
    /\ pc = "loop"
    /\ HasNext
    /\ ~IsCompound(NextText)
    /\ LET r == ParseSingle(ann, DateRange, NextText)
       IN  /\ ann' = r.self
           /\ single' = [text |-> NextText, before |-> ann, result |-> r.result]
           /\ IF r.result.ok
              THEN /\ queue' = IF queue # <<>> THEN Tail(queue) ELSE <<>>
                   /\ UNCHANGED <<pc, result>>
              ELSE /\ queue' = <<>>
                   /\ pc' = "returned"
                   /\ result' = r.result
    /\ idx' = IF queue # <<>> THEN idx ELSE idx + 1
    /\ UNCHANGED <<texts, ann0, taken, datesVars, notesVars, formVars>>

\* Every loop has run to its end: parse returns Ok(()).
ParseReturn ==
    /\ pc = "loop"
    /\ ~HasNext
    /\ pc' = "returned"
    /\ result' = Ok
    /\ UNCHANGED <<texts, idx, queue, ann, ann0, single, taken, datesVars, notesVars, formVars>>

Next ==
    \/ ParseCall
    \/ ParseCompound
    \/ ParseSingleCall
    \/ ParseReturn

Spec == Init /\ [][Next]_vars

(***************************************************************************)
(* SpecDates: an AnnotationDates is built by extend and resolved.  The     *)
(* resolving methods take self by value; the caller resolves a clone, so   *)
(* `dates` itself stays available; dres holds the last resolution of the   *)
(* current value and is dropped when the value changes.                    *)
(***************************************************************************)
InitDates == ParserIdle /\ NotesIdle /\ DatesIdle /\ FormIdle

DatesNew ==
    /\ dates # AnnotationDatesNew
    /\ dates' = AnnotationDatesNew
    /\ dres' = NoResolution
    /\ UNCHANGED <<parseVars, notesVars, formVars>>

DatesExtend ==
    \E other \in SingleDates :
        /\ DatesCount(AnnotationDatesExtend(dates, other)) <= MaxDates
        /\ dates' = AnnotationDatesExtend(dates, other)
        /\ dres' = NoResolution
        /\ UNCHANGED <<parseVars, notesVars, formVars>>

DatesIntoDateRestriction ==
    /\ dres' = [op |-> "into_date_restriction",
                self |-> dates,
                weekday |-> "",
                base |-> All,
                retained |-> dates,
                cancelled |-> CancelCommon(dates),
                out |-> IntoDateRestriction(dates)]
    /\ UNCHANGED <<dates, parseVars, notesVars, formVars>>

DatesIntoDateRestrictionByWeekday ==
    \E weekday \in WeekdaySet :
        /\ dres' = [op |-> "into_date_restriction_by_weekday",
                    self |-> dates,
                    weekday |-> weekday,
                    base |-> All,
                    retained |-> RetainBoth(dates, [d \in Days |-> WeekdayPredicate(d, weekday)]),
                    cancelled |-> CancelCommon(
                        RetainBoth(dates, [d \in Days |-> WeekdayPredicate(d, weekday)])),
                    out |-> IntoDateRestrictionByWeekday(dates, weekday)]
        /\ UNCHANGED <<dates, parseVars, notesVars, formVars>>

DatesIntoDateRestrictionByWeekdayAndDateRestriction ==
    \E weekday \in WeekdaySet, base \in BaseRestrictions :
        /\ dres' = [op |-> "into_date_restriction_by_weekday_and_date_restriction",
                    self |-> dates,
                    weekday |-> weekday,
                    base |-> base,
                    retained |-> RetainBoth(dates,
                        [d \in Days |-> WeekdayAndDateRestrictionPredicate(d, weekday, base)]),
                    cancelled |-> CancelCommon(RetainBoth(dates,
                        [d \in Days |-> WeekdayAndDateRestrictionPredicate(d, weekday, base)])),
                    out |-> IntoDateRestrictionByWeekdayAndDateRestriction(dates, weekday, base)]
        /\ UNCHANGED <<dates, parseVars, notesVars, formVars>>

NextDates ==
    \/ DatesNew
    \/ DatesExtend
    \/ DatesIntoDateRestriction
    \/ DatesIntoDateRestrictionByWeekday
    \/ DatesIntoDateRestrictionByWeekdayAndDateRestriction

SpecDates == InitDates /\ [][NextDates]_vars

(***************************************************************************)
(* SpecNotes: a Note Registry is filled, merged and resolved per weekday.  *)
(***************************************************************************)
InitNotes == ParserIdle /\ DatesIdle /\ NotesIdle /\ FormIdle

\* A note is (re-)recorded: text_date_restriction(&mut notes, text).
NotesTextDateRestriction ==
    \E text \in NoteTexts :
        /\ notes' = TextDateRestriction(notes, text)
        /\ nres' = [op |-> "text_date_restriction", before |-> notes, text |-> text]
        /\ UNCHANGED <<parseVars, datesVars, formVars>>

\* A note is date-scoped through the reference text_date_restriction returns:
\* text_date_restriction(&mut notes, text).extend(&other).
NotesTextDateRestrictionExtend ==
    \E text \in NoteTexts, other \in SingleDates :
        LET map == TextDateRestriction(notes, text)
            new == [map EXCEPT ![text] = AnnotationDatesExtend(map[text], other)]
        IN  /\ NotesCount(new) <= MaxNoteDates
            /\ notes' = new
            /\ nres' = [op |-> "text_date_restriction_extend", before |-> notes,
                        text |-> text, other |-> other]
            /\ UNCHANGED <<parseVars, datesVars, formVars>>

NotesExtend ==
    \E other \in SingleNotes :
        /\ NotesCount(AnnotationNotesExtend(notes, other)) <= MaxNoteDates
        /\ notes' = AnnotationNotesExtend(notes, other)
        /\ nres' = [op |-> "extend", before |-> notes, other |-> other]
        /\ UNCHANGED <<parseVars, datesVars, formVars>>

NotesDateRestrictions ==
    \E weekday \in WeekdaySet, base \in BaseRestrictions :
        /\ nres' = [op |-> "annotation_notes_date_restictions",
                    before |-> notes,
                    weekday |-> weekday,
                    base |-> base,
                    out |-> AnnotationNotesDateRestictions(notes, weekday, base)]
        /\ UNCHANGED <<notes, parseVars, datesVars, formVars>>

NextNotes ==
    \/ NotesTextDateRestriction
    \/ NotesTextDateRestrictionExtend
    \/ NotesExtend
    \/ NotesDateRestrictions

SpecNotes == InitNotes /\ [][NextNotes]_vars

(***************************************************************************)
(* SpecForm: the Sailings component is mounted with some query date and    *)
(* then takes events.  A callback that sets the state or pushes a query    *)
(* makes the component render again: the render reads the clock and        *)
(* builds the next callbacks from the kept DateInputState and the new      *)
(* props.  The clock moves on between the events.                          *)
(***************************************************************************)
InitForm ==
    /\ ParserIdle /\ DatesIdle /\ NotesIdle
    /\ clock = 1
    /\ props_date \in {None} \cup {Some(date) : date \in FormDates}
    /\ schedules_state = Loading
    /\ date_input_state = InitialDateInputState(QueryDateOrToday(props_date, clock))
    /\ form = SailingsComponent(props_date, clock, schedules_state, date_input_state)
    /\ last = NoEvent

\* A callback of the last render runs and the component renders again.
Handle(op, orig_date_input, effect) ==
    /\ date_input_state' = effect.set
    /\ props_date' = IF effect.push.some THEN effect.push.date ELSE props_date
    /\ form' = SailingsComponent(props_date', clock, schedules_state, date_input_state')
    /\ last' = [op |-> op, input |-> orig_date_input, self |-> form,
                set |-> effect.set, push |-> effect.push]
    /\ UNCHANGED <<clock, schedules_state, parseVars, datesVars, notesVars>>

OnchangeDateInput ==
    \E orig_date_input \in DateInputs :
        Handle("date_input", orig_date_input, OnchangeDateInputCallback(form, orig_date_input))

OnclickPreviousDate ==
    /\ ~PreviousDisabled(form, date_input_state)
    /\ Handle("previous", <<>>,
              OnclickAdjustDateButtonCallback(form, Some(MaxDate(form.view_date - 1, form.today))))

OnclickNextDate ==
    /\ ~NextDisabled(form, date_input_state)
    /\ Handle("next", <<>>,
              OnclickAdjustDateButtonCallback(form, Some(MinDate(form.view_date + 1, form.max_date))))

OnclickToday ==
    /\ ~TodayDisabled(form)
    /\ Handle("today", <<>>, OnclickAdjustDateButtonCallback(form, None))

\* FormModel::onclick_swap_terminals_button_callback: the query keeps
\* query_date, no state is set; the new props make the component render.
OnclickSwapTerminals ==
    Handle("swap", <<>>, Effect(date_input_state, Some(form.query_date)))

\* The SchedulesState context changes: the component renders again.
SchedulesLoad ==
    /\ schedules_state = Loading
    /\ schedules_state' \in {Failed, Loaded(None)} \cup {Loaded(Some(to)) : to \in FormDates}
    /\ form' = SailingsComponent(props_date, clock, schedules_state', date_input_state)
    /\ UNCHANGED <<clock, props_date, date_input_state, last, parseVars, datesVars, notesVars>>

\* Midnight in the Pacific time zone.
Midnight ==
    /\ clock < MaxToday
    /\ clock' = clock + 1
    /\ UNCHANGED <<props_date, schedules_state, date_input_state, form, last,
                   parseVars, datesVars, notesVars>>

NextForm ==
    \/ OnchangeDateInput
    \/ OnclickPreviousDate
    \/ OnclickNextDate
    \/ OnclickToday
    \/ OnclickSwapTerminals
    \/ SchedulesLoad
    \/ Midnight

SpecForm == InitForm /\ [][NextForm]_vars

(***************************************************************************)
(* Properties of the Date-Set Algebra (SpecDates).                         *)
(***************************************************************************)
Resolved == dres.op # "none"

\* The filter of the resolution dres records.
PassesFilter(d) ==
    CASE dres.op = "into_date_restriction" -> TRUE
      [] dres.op = "into_date_restriction_by_weekday" -> WeekdayOf(d) = dres.weekday
      [] OTHER -> WeekdayOf(d) = dres.weekday /\ IncludesDate(dres.base, d)

\* C4: a date that is in both the only set and the except set before
\* resolution is removed from both by the loop of into_date_restriction, also
\* in the weekday-filtered variants, and the DateRestriction returned does not
\* contain it, be it Only(..) or Except(..).
CrossCancellation ==
    Resolved =>
        \A d \in dres.self.only \cap dres.self.except :
            /\ d \notin dres.cancelled.only
            /\ d \notin dres.cancelled.except
            /\ d \notin dres.out.dates

\* A date shared by both sets was cancelled and the rest came out as Only(..).
CrossCancellationWitness ==
    /\ dres.op = "into_date_restriction"
    /\ dres.self.only \cap dres.self.except # {}
    /\ dres.out.kind = "Only"

\* C5: no resolution returns Only(S) or Except(S) with S empty; when both
\* sets are empty, from the start or after filtering and cross-cancellation,
\* the result is All.
CanonicalForm ==
    Resolved =>
        /\ dres.out.kind \in {"Only", "Except"} => dres.out.dates # {}
        /\ IsAlways(dres.self) => dres.out = All
        /\ IsAlways(dres.cancelled) => dres.out = All
        /\ dres.out.kind = "All" => IsAlways(dres.cancelled)

\* Sets that were not empty became empty by filtering or cancelling: All.
CanonicalFormWitness ==
    /\ dres.op = "into_date_restriction_by_weekday_and_date_restriction"
    /\ dres.self.only # {}
    /\ dres.self.except # {}
    /\ dres.out = All

\* C10: every date of the DateRestriction returned by
\* into_date_restriction_by_weekday_and_date_restriction falls on the weekday,
\* is included in base, and was in the only set (Only result) or the except set
\* (Except result) of the input; the dates the cross-cancellation removes are
\* shared dates that passed the filter.
WeekdayResolverFiltering ==
    dres.op = "into_date_restriction_by_weekday_and_date_restriction" =>
        /\ \A d \in dres.out.dates :
            /\ WeekdayOf(d) = dres.weekday
            /\ IncludesDate(dres.base, d)
            /\ dres.out.kind = "Only" => d \in dres.self.only
            /\ dres.out.kind = "Except" => d \in dres.self.except
        /\ dres.retained.only = {d \in dres.self.only : PassesFilter(d)}
        /\ dres.retained.except = {d \in dres.self.except : PassesFilter(d)}
        /\ \A d \in (dres.retained.only \cup dres.retained.except)
                    \ (dres.cancelled.only \cup dres.cancelled.except) :
            d \in dres.self.only \cap dres.self.except /\ PassesFilter(d)

\* A shared date fails the filter, another date passes it and is returned,
\* and base excluded a date of the weekday.
WeekdayResolverFilteringWitness ==
    /\ dres.op = "into_date_restriction_by_weekday_and_date_restriction"
    /\ dres.out.kind \in {"Only", "Except"}
    /\ \E d \in dres.self.only \cap dres.self.except : ~PassesFilter(d)
    /\ \E d \in dres.self.only \cup dres.self.except :
        WeekdayOf(d) = dres.weekday /\ ~IncludesDate(dres.base, d)

(***************************************************************************)
(* Properties of the Note Registry and the Weekday Resolver (SpecNotes).   *)
(***************************************************************************)
\* C2: a note whose AnnotationDates is not is_always() but whose only and
\* except sets are both empty after filtering to the weekday and to base is
\* absent from the mapping returned.
FilteredOutNoteIsAbsent ==
    nres.op = "annotation_notes_date_restictions" =>
        \A k \in DOMAIN nres.before :
            LET ad == nres.before[k]
                passes(d) == WeekdayOf(d) = nres.weekday /\ IncludesDate(nres.base, d)
            IN  (/\ ~IsAlways(ad)
                 /\ {d \in ad.only : passes(d)} = {}
                 /\ {d \in ad.except : passes(d)} = {})
                => k \notin DOMAIN nres.out

\* C8: a note text added to a registry that already holds it, by recording
\* the note again or by AnnotationNotes::extend, keeps one entry whose sets are
\* the union of the dates of both; no date recorded before is lost.
NoteRegistryMerge ==
    /\ nres.op = "extend" =>
        \A k \in DOMAIN nres.before \cap DOMAIN nres.other :
            /\ k \in DOMAIN notes
            /\ notes[k].only = nres.before[k].only \cup nres.other[k].only
            /\ notes[k].except = nres.before[k].except \cup nres.other[k].except
    /\ (nres.op = "text_date_restriction" /\ nres.text \in DOMAIN nres.before) =>
        notes = nres.before

(***************************************************************************)
(* Properties of Annotations::parse and parse_single (Spec).               *)
(***************************************************************************)
Returned == pc = "returned"

\* A parse_single call has been made in the current parse call; `ann` is
\* self as that call left it.
SingleCalled == single.text # <<>>

\* parse_single on each string of a list in turn, up to the first error.
RECURSIVE ParseEach(_, _)
ParseEach(self, list) ==
    IF list = <<>> THEN [self |-> self, result |-> Ok]
    ELSE LET r == ParseSingle(self, DateRange, Head(list))
         IN  IF r.result.ok THEN ParseEach(r.self, Tail(list)) ELSE r

\* Position of the first '!' of a text (0 when there is none).
FirstMarker(t) ==
    IF \E i \in 1..Len(t) : t[i] = "!"
    THEN CHOOSE i \in 1..Len(t) : t[i] = "!" /\ \A j \in 1..(i - 1) : t[j] # "!"
    ELSE 0

\* '<clause> ! <note>': the clause, the note with its marker, the note alone.
ClauseOf(t) == SubSeq(t, 1, FirstMarker(t) - 2)

MarkedNoteOf(t) == SubSeq(t, FirstMarker(t), Len(t))

NoteOf(t) == SubSeq(t, FirstMarker(t) + 2, Len(t))

RECURSIVE SplitCompounds(_)
SplitCompounds(list) ==
    IF list = <<>> THEN <<>>
    ELSE (IF IsCompound(Head(list))
          THEN <<ClauseOf(Head(list)), MarkedNoteOf(Head(list))>>
          ELSE <<Head(list)>>) \o SplitCompounds(Tail(list))

IsExactFixedPhrase(cleaned) ==
    \/ cleaned \in {DangerousGoodsOnly, NoPassengersDGSailingOnly}
    \/ (Len(cleaned) >= Len(NoPassengersOnlySailsOn)
        /\ SubSeq(cleaned, 1, Len(NoPassengersOnlySailsOn)) = NoPassengersOnlySailsOn)
    \/ cleaned \in {<<"!", " ">> \o SaturnaNote, FootPassengersOnly,
                    <<"Note", ":", " ">> \o JustAfterMidnight, JustBeforeMidnight}
    \/ cleaned = NoSailingsAvailable

\* C3: a string that matches neither the star nor the blanket pattern and
\* whose cleaned text is not exactly a fixed phrase makes parse_single return
\* 'Unrecognized annotation text' naming that text, and changes nothing.
FailFastOnUnrecognized ==
    SingleCalled =>
        LET normalized == Normalized(single.text)
            cleaned == CleanedText(normalized)
        IN  (/\ ~IsMatch(StarRe, normalized)
             /\ ~IsMatch(BlanketRe, normalized)
             /\ ~IsExactFixedPhrase(cleaned))
            => /\ ~single.result.ok
               /\ single.result.kind = "Unrecognized annotation text"
               /\ single.result.what = cleaned
               /\ ann = single.before

\* The date list of a text that matches the blanket pattern, its tokens and
\* the dates of the tokens that lie in the DateRange.
BlanketTokens(normalized) ==
    SplitTrim(Cap(normalized, Captures(BlanketRe, normalized), 3), {",", "&"}, <<>>)

InRangeDates(tokens) ==
    {ParseDateWithin(DateRange, tokens[i]).date :
        i \in {j \in 1..Len(tokens) : ParseDateWithin(DateRange, tokens[j]).some}}

AllTokensParse(tokens) == \A i \in 1..Len(tokens) : ParseDateWithin(DateRange, tokens[i]).ok

\* The set a blanket keyword selects, whatever its letter case.
BlanketTargetAnyCase(keyword) ==
    BlanketTarget([i \in 1..Len(keyword) |->
        CASE Lower(keyword[i]) = "except" -> "Except"
          [] Lower(keyword[i]) = "not" -> "Not"
          [] Lower(keyword[i]) = "available" -> "Available"
          [] Lower(keyword[i]) = "dg" -> "DG"
          [] Lower(keyword[i]) = "sailing" -> "Sailing"
          [] Lower(keyword[i]) = "only" -> IF Len(keyword) = 1 THEN "Only" ELSE "only"
          [] OTHER -> keyword[i]])

\* C6: for a text matching the blanket pattern, the keyword in any letter
\* case the pattern accepts, each date token inside the DateRange is inserted
\* into the set the keyword selects and into no other set, and a token outside
\* the DateRange into no set (read for date lists whose tokens all parse).
BlanketRouting ==
    SingleCalled =>
        LET normalized == Normalized(single.text)
            captures == Captures(BlanketRe, normalized)
            target == BlanketTargetAnyCase(Cap(normalized, captures, 1))
            tokens == BlanketTokens(normalized)
        IN  (/\ ~IsMatch(StarRe, normalized)
             /\ IsMatch(BlanketRe, normalized)
             /\ AllTokensParse(tokens))
            => ann = [single.before EXCEPT ![target[1]][target[2]] = @ \cup InRangeDates(tokens)]

\* Whether parse_single reaches the loop over the date tokens of the text,
\* and then the tokens.
ReachesDateLoop(normalized) ==
    IF IsMatch(StarRe, normalized)
    THEN LET captures == Captures(StarRe, normalized)
         IN  /\ ParseTime(Cap(normalized, captures, 1)).ok
             /\ Cap(normalized, captures, 2) \in {Words(<<"Not", "Available">>), <<"Only">>}
    ELSE /\ IsMatch(BlanketRe, normalized)
         /\ BlanketTarget(Cap(normalized, Captures(BlanketRe, normalized), 1)) # <<>>

LoopTokens(normalized) ==
    IF IsMatch(StarRe, normalized)
    THEN SplitTrim(Cap(normalized, Captures(StarRe, normalized), 3), {","}, <<>>)
    ELSE BlanketTokens(normalized)

\* The set the loop inserts into, as it is in the Annotations `a`.
LoopSet(a, normalized) ==
    IF IsMatch(StarRe, normalized)
    THEN LET captures == Captures(StarRe, normalized)
             time == ParseTime(Cap(normalized, captures, 1)).time
             field == IF Cap(normalized, captures, 2) = <<"Only">> THEN "only" ELSE "except"
         IN  IF time \in DOMAIN a.star_dates_by_time
             THEN a.star_dates_by_time[time][field] ELSE {}
    ELSE LET target == BlanketTarget(Cap(normalized, Captures(BlanketRe, normalized), 1))
         IN  a[target[1]][target[2]]

\* C9: in the star and the blanket date lists a token that parses but lies
\* outside the DateRange is dropped, the tokens after it are still processed
\* and the call returns Ok; a token that is no date makes the call return an
\* error carrying the token and the annotation text.
OutOfRangeVersusUnparseable ==
    SingleCalled =>
        LET normalized == Normalized(single.text)
            tokens == LoopTokens(normalized)
            bad == {i \in 1..Len(tokens) : ~ParseDateWithin(DateRange, tokens[i]).ok}
            first == CHOOSE i \in bad : \A j \in bad : i <= j
        IN  ReachesDateLoop(normalized) =>
                IF bad = {}
                THEN /\ single.result = Ok
                     /\ LoopSet(ann, normalized)
                            = LoopSet(single.before, normalized) \cup InRangeDates(tokens)
                ELSE /\ ~single.result.ok
                     /\ single.result.kind \in {"Failed to parse date", "Failed to parse sailing date"}
                     /\ single.result.what = tokens[first]
                     /\ single.result.within = normalized
                     /\ single.result.text = single.text
                     /\ LoopSet(ann, normalized)
                            = LoopSet(single.before, normalized)
                              \cup InRangeDates(SubSeq(tokens, 1, first - 1))
                     /\ Returned /\ result = single.result

\* A token outside the range came first and the date after it was inserted.
OutOfRangeWitness ==
    /\ SingleCalled
    /\ single.text = NotAvailableSep9Jul2
    /\ single.result = Ok
    /\ ann.all_dates.except = single.before.all_dates.except \cup {2}
    /\ 2 \notin single.before.all_dates.except

\* The permutations of a list.
PermutationsOf(list) ==
    {[i \in 1..Len(list) |-> list[p[i]]] : p \in Permutations(1..Len(list))}

\* Whether a string, parsed on its own, fails (the Annotations it is parsed
\* into plays no part in that).
Fails(annotation_text) == ~Parse(AnnotationsNew, DateRange, <<annotation_text>>).result.ok

\* C7: when parse succeeds on a list, it succeeds on every permutation of
\* the list from the same initial Annotations, with the same final
\* Annotations; when a string fails, the error is that of the first failing
\* string in input order and no later string is taken.
OrderIndependence ==
    Returned =>
        IF result.ok
        THEN /\ idx = Len(texts)
             /\ \A p \in PermutationsOf(texts) :
                    Parse(ann0, DateRange, p) = [self |-> ann, result |-> Ok]
        ELSE /\ idx \in 1..Len(texts)
             /\ Fails(texts[idx])
             /\ \A i \in 1..(idx - 1) : ~Fails(texts[i])
             /\ result = Parse(AnnotationsNew, DateRange, <<texts[idx]>>).result
             /\ ann = Parse(ann0, DateRange, SubSeq(texts, 1, idx)).self

\* Two different strings that write to the same star_dates_by_time entry
\* were parsed in one call.
OrderIndependenceWitness ==
    /\ Returned
    /\ result.ok
    /\ texts = <<StarOnly, StarNotAvailable>>
    /\ \E time \in DOMAIN ann.star_dates_by_time :
        ann.star_dates_by_time[time] = [only |-> {8}, except |-> {1, 2}]

\* The parts of a text that matches the star pattern: its time text, its
\* verb and its date tokens.
StarTimeText(normalized) == Cap(normalized, Captures(StarRe, normalized), 1)

StarVerb(normalized) == Cap(normalized, Captures(StarRe, normalized), 2)

StarTokens(normalized) ==
    SplitTrim(Cap(normalized, Captures(StarRe, normalized), 3), {","}, <<>>)

\* The AnnotationDates stored under `time` in star_dates_by_time (none: empty).
StarEntry(a, time) ==
    IF time \in DOMAIN a.star_dates_by_time THEN a.star_dates_by_time[time]
    ELSE AnnotationDatesNew

\* The tokens of a list up to its first token that is no date.
ParsedPrefix(tokens) ==
    SubSeq(tokens, 1,
           Cardinality({i \in 1..Len(tokens) :
                \A j \in 1..i : ParseDateWithin(DateRange, tokens[j]).ok}))

\* C11: for a text '*<time> (Not Available|Only) on: <date-list>*' each
\* in-range date of the list goes into the except set (Not Available) or the
\* only set (Only) of the entry of star_dates_by_time under the parsed time and
\* nowhere else: the other set of the entry, the entries of other times,
\* all_dates, dg_dates, star_dates, is_dg_only and all_notes stay as they were;
\* a text matching the star pattern changes nothing but star_dates_by_time.
StarRouting ==
    (SingleCalled /\ IsMatch(StarRe, Normalized(single.text))) =>
        LET normalized == Normalized(single.text)
            parsed == ParseTime(StarTimeText(normalized))
            verb == StarVerb(normalized)
            mine == IF verb = <<"Only">> THEN "only" ELSE "except"
            other == IF verb = <<"Only">> THEN "except" ELSE "only"
            tokens == StarTokens(normalized)
        IN  /\ ann = [single.before EXCEPT !.star_dates_by_time = ann.star_dates_by_time]
            /\ (parsed.ok /\ verb \in {<<"Only">>, Words(<<"Not", "Available">>)}) =>
                /\ DOMAIN ann.star_dates_by_time
                        = DOMAIN single.before.star_dates_by_time \cup {parsed.time}
                /\ \A time \in DOMAIN single.before.star_dates_by_time \ {parsed.time} :
                        ann.star_dates_by_time[time] = single.before.star_dates_by_time[time]
                /\ StarEntry(ann, parsed.time)[other]
                        = StarEntry(single.before, parsed.time)[other]
                /\ StarEntry(ann, parsed.time)[mine]
                        = StarEntry(single.before, parsed.time)[mine]
                          \cup InRangeDates(ParsedPrefix(tokens))
                /\ AllTokensParse(tokens) => single.result = Ok

\* A star text added its in-range dates to the except set of an entry that
\* held an only date already, beside an entry of another time.
StarRoutingWitness ==
    /\ SingleCalled
    /\ single.text = StarNotAvailable
    /\ single.result = Ok
    /\ \E time \in DOMAIN single.before.star_dates_by_time :
        /\ single.before.star_dates_by_time[time] = [only |-> {8}, except |-> {}]
        /\ ann.star_dates_by_time[time] = [only |-> {8}, except |-> {1, 2}]

\* C12: parsing a DG-unconditional phrasing sets is_dg_only and changes
\* nothing else: dg_dates, all_dates, star_dates, star_dates_by_time and
\* all_notes are as they were before the call (all empty on a fresh
\* Annotations), and the call succeeds.
DgOnlyFrame ==
    /\ (SingleCalled /\ single.text \in DgUnconditional) =>
            /\ ann = [single.before EXCEPT !.is_dg_only = TRUE]
            /\ single.result = Ok
    /\ Returned =>
            \A phrase \in DgUnconditional :
                ParseSingle(ann, DateRange, phrase)
                    = [self |-> [ann EXCEPT !.is_dg_only = TRUE], result |-> Ok]

\* "Dangerous goods only" was parsed into an Annotations that held DG dates
\* and was not DG-only yet.
DgOnlyFrameWitness ==
    /\ SingleCalled
    /\ single.text = DangerousGoodsOnly
    /\ ~single.before.is_dg_only
    /\ single.before.dg_dates.only # {}
    /\ ann.is_dg_only
    /\ ann.dg_dates = single.before.dg_dates

\* The two keyword-mismatch failures of parse_single.
KeywordMismatch ==
    {"Expect \"Not Available\" or \"Only\"",
     "Expect \"Except\", \"Only\", or \"DG Sailing only\""}

\* C13: whatever text the star or the blanket pattern matches, the captured
\* verb or keyword is one of the arms of the match that follows, so
\* parse_single never returns a keyword-mismatch error.
KeywordMismatchUnreachable ==
    SingleCalled => (single.result.ok \/ single.result.kind \notin KeywordMismatch)

\* C14: when the only set is not empty after filtering and cross-cancellation
\* the resolution returns Only of it, whatever the except set still holds (the
\* except dates are in no result); Except of the except set is returned only
\* when the only set is empty.
OnlyPrecedence ==
    Resolved =>
        /\ dres.cancelled.only # {} => dres.out = Only(dres.cancelled.only)
        /\ dres.out.kind = "Except" =>
                /\ dres.cancelled.only = {}
                /\ dres.out = Except(dres.cancelled.except)
        /\ (dres.cancelled.only # {} /\ dres.cancelled.except # {}) =>
                dres.out.dates \cap dres.cancelled.except = {}

\* Both sets held dates after the weekday filter and the cross-cancellation,
\* and the resolution returned Only.
OnlyPrecedenceWitness ==
    /\ dres.op = "into_date_restriction_by_weekday_and_date_restriction"
    /\ dres.cancelled.only # {}
    /\ dres.cancelled.except # {}
    /\ dres.retained # dres.self
    /\ dres.out = Only(dres.cancelled.only)

\* Every date of the AnnotationDates a is in the same set of b.
DatesWithin(a, b) == a.only \subseteq b.only /\ a.except \subseteq b.except

\* Every key of the map a is a key of b, with every date of its sets.
MapWithin(a, b) ==
    /\ DOMAIN a \subseteq DOMAIN b
    /\ \A key \in DOMAIN a : DatesWithin(a[key], b[key])

\* Nothing the Annotations a holds is missing from b.
AnnotationsWithin(a, b) ==
    /\ DatesWithin(a.all_dates, b.all_dates)
    /\ DatesWithin(a.dg_dates, b.dg_dates)
    /\ DatesWithin(a.star_dates, b.star_dates)
    /\ MapWithin(a.star_dates_by_time, b.star_dates_by_time)
    /\ MapWithin(a.all_notes, b.all_notes)
    /\ a.is_dg_only => b.is_dg_only

\* parse has returned an error.
FailedReturn == Returned /\ ~result.ok

\* What a failed parse call leaves in the Annotations: the effects of the
\* strings before the failing one, the star_dates_by_time entry of the failing
\* string's time, and the in-range dates of its tokens before the failing one.
KeptOnFailure ==
    \E normalized \in {Normalized(single.text)} :
    \E earlier \in {Parse(ann0, DateRange, SubSeq(texts, 1, idx - 1))} :
        /\ earlier.result.ok
        /\ AnnotationsWithin(ann0, earlier.self)
        /\ AnnotationsWithin(earlier.self, single.before)
        /\ AnnotationsWithin(single.before, ann)
        /\ (IsMatch(StarRe, normalized) /\ ParseTime(StarTimeText(normalized)).ok) =>
                ParseTime(StarTimeText(normalized)).time \in DOMAIN ann.star_dates_by_time
        /\ ReachesDateLoop(normalized) =>
                InRangeDates(ParsedPrefix(LoopTokens(normalized)))
                    \subseteq LoopSet(ann, normalized)

\* C15: a failing parse rolls nothing back: the effects of the earlier
\* strings of the call, the dates of the failing string's tokens before the
\* failing token and the star_dates_by_time entry made for its time stay; over
\* any sequence of parse calls no step removes a date from a set, a key from a
\* map or sets is_dg_only back to false.
NoRollback ==
    /\ [](FailedReturn => KeptOnFailure)
    /\ [][AnnotationsWithin(ann, ann')]_vars

\* A parse call failed at the second token of its second string: the effect
\* of the first string and the date of the first token are in the Annotations.
NoRollbackWitness ==
    /\ FailedReturn
    /\ single.text = ExceptJul8Jul32Jul2
    /\ single.before # ann0
    /\ 8 \notin single.before.all_dates.except
    /\ 8 \in ann.all_dates.except

\* A parse call failed at the verb of a star string: the entry made for its
\* time is in the Annotations.
NoRollbackStarWitness ==
    /\ FailedReturn
    /\ single.text = StarLowerVerb
    /\ DOMAIN single.before.star_dates_by_time = {}
    /\ DOMAIN ann.star_dates_by_time # {}

(***************************************************************************)
(* Properties of the date navigation of the front end (SpecForm).          *)
(***************************************************************************)
\* The callbacks of the date input and of the previous, next and today
\* buttons.
DateNavigation == {"date_input", "previous", "next", "today"}

\* What a change of the date input sets and pushes: an empty (trimmed) input
\* resets the value to today and pushes a query with no date; a date before
\* today sets 'Date may not be in the past.' and pushes nothing; any other
\* date is set and pushed; an input that is no date sets 'Date format must be
\* YYYY-MM-DD.' and pushes nothing.  today is the today of the render that
\* built the callback.
DateInputOutcomes ==
    last.op = "date_input" =>
        LET trimmed == Trim(last.input)
            parsed == NaiveDateParse(trimmed)
        IN  /\ trimmed = <<>> =>
                /\ last.set.value = ValueOk(last.self.today)
                /\ last.push = Some(None)
            /\ (parsed.some /\ parsed.date < last.self.today) =>
                /\ last.set.value = ValueErr("Date may not be in the past.")
                /\ last.set.input = last.input
                /\ last.push = None
            /\ (parsed.some /\ parsed.date >= last.self.today) =>
                /\ last.set.value = ValueOk(parsed.date)
                /\ last.push = Some(Some(parsed.date))
            /\ (trimmed # <<>> /\ ~parsed.some) =>
                /\ last.set.value = ValueErr("Date format must be YYYY-MM-DD.")
                /\ last.set.input = last.input
                /\ last.push = None

\* Every date a date-navigation callback sets as an Ok value or pushes as the
\* 'date' of the query is on or after the today of the render that built it.
NotBeforeToday ==
    last.op \in DateNavigation =>
        /\ last.set.value.ok => last.set.value.date >= last.self.today
        /\ (last.push.some /\ last.push.date.some) => last.push.date.date >= last.self.today

\* C16: after any sequence of date-input changes and previous, next and today
\* clicks, every date set as an Ok date-input value or pushed as the 'date' of
\* the history query is on or after today, and a change of the date input has
\* the outcomes of DateInputOutcomes.
DateNavigationNeverPast == NotBeforeToday /\ DateInputOutcomes

\* The same while the Pacific date is still the one of the mount.
DateNavigationNeverPastSameDay == clock = 1 => DateNavigationNeverPast

====
